---- MODULE Spec2Model ----
(***************************************************************************)
(* A model of src/utils/convert.js: the conversion of a legacy app         *)
(* definition into generated source files.                                 *)
(*                                                                         *)
(* JavaScript values are records [t |-> type tag, v |-> text], where v is  *)
(* the text the value turns into inside a template literal.  Strings are   *)
(* TLA+ strings; a character is a string of length one.                    *)
(***************************************************************************)
EXTENDS Integers, Sequences, FiniteSets, TLC

VARIABLES
  fdef, fkey, fres,        \* renderField: its arguments and its outcome
  htext, hres,             \* padHelpText: its argument and its result
  sdef, sres,              \* renderStep: a step definition, the context it builds
  iapp, ires,              \* renderIndex: a legacy app, the context it builds
  app,                     \* convertApp: the legacy app it was called with
  pc,                      \* convertApp: "start", "returned" or "threw"
  tasks,                   \* the file tasks issued so far, each with its position
  all,                     \* the promise of Promise.all: "none", "pending", ...
  written,                 \* how often each destination path was written
  printed                  \* the notifier's calls, in order

vars == <<fdef, fkey, fres, htext, hres, sdef, sres, iapp, ires,
          app, pc, tasks, all, written, printed>>

fieldVars == <<fdef, fkey, fres>>
helpVars == <<htext, hres>>
stepVars == <<sdef, sres>>
indexVars == <<iapp, ires>>
convertVars == <<app, pc, tasks, all, written, printed>>

----------------------------------------------------------------------------
(* JavaScript values *)

Undefined == [t |-> "undefined", v |-> "undefined"]
Null == [t |-> "null", v |-> "null"]
Str(s) == [t |-> "string", v |-> s]
Num(s) == [t |-> "number", v |-> s]
Bool(b) == [t |-> "boolean", v |-> IF b THEN "true" ELSE "false"]
Fun(s) == [t |-> "function", v |-> s]

\* String(x), as a template literal `${x}` applies it
toStr(x) == x.v

\* ToBoolean
Truthy(x) ==
  CASE x.t \in {"undefined", "null"} -> FALSE
    [] x.t = "string" -> x.v # ""
    [] x.t = "number" -> x.v \notin {"0", "NaN"}
    [] x.t = "boolean" -> x.v = "true"
    [] OTHER -> TRUE

\* _.isString
isString(x) == x.t = "string"

----------------------------------------------------------------------------
(* Strings *)

Char(s, i) == SubSeq(s, i, i)

UpperCase == "ABCDEFGHIJKLMNOPQRSTUVWXYZ"
LowerCase == "abcdefghijklmnopqrstuvwxyz"
Digits == "0123456789"

IndexIn(c, alphabet) ==
  IF \E i \in 1..Len(alphabet) : Char(alphabet, i) = c
  THEN CHOOSE i \in 1..Len(alphabet) : Char(alphabet, i) = c
  ELSE 0

isUpper(c) == IndexIn(c, UpperCase) # 0
isLower(c) == IndexIn(c, LowerCase) # 0
isDigit(c) == IndexIn(c, Digits) # 0

lowerChar(c) == IF isUpper(c) THEN Char(LowerCase, IndexIn(c, UpperCase)) ELSE c
upperChar(c) == IF isLower(c) THEN Char(UpperCase, IndexIn(c, LowerCase)) ELSE c

RECURSIVE MapChars(_, _, _)
MapChars(s, i, up) ==
  IF i > Len(s) THEN ""
  ELSE (IF up THEN upperChar(Char(s, i)) ELSE lowerChar(Char(s, i)))
         \o MapChars(s, i + 1, up)

\* String.prototype.toLowerCase
toLowerCase(s) == MapChars(s, 1, FALSE)
\* String.prototype.toUpperCase
toUpperCase(s) == MapChars(s, 1, TRUE)

\* _.capitalize: the first character upper-cased, the rest lower-cased
capitalize(s) ==
  IF Len(s) = 0 THEN ""
  ELSE upperChar(Char(s, 1)) \o toLowerCase(SubSeq(s, 2, Len(s)))

\* Array.prototype.join
RECURSIVE join(_, _)
join(lines, sep) ==
  IF Len(lines) = 0 THEN ""
  ELSE IF Len(lines) = 1 THEN lines[1]
  ELSE lines[1] \o sep \o join(Tail(lines), sep)

\* String.prototype.repeat
RECURSIVE repeat(_, _)
repeat(s, n) == IF n = 0 THEN "" ELSE s \o repeat(s, n - 1)

----------------------------------------------------------------------------
(* The tables *)

MIN_HELP_TEXT_LENGTH == 10

typesMap ==
  [unicode |-> "string", textarea |-> "text", integer |-> "integer",
   float |-> "number", boolean |-> "boolean", datetime |-> "datetime",
   file |-> "file", password |-> "password"]

\* What a plain object literal inherits from Object.prototype: a property
\* read that misses the object's own keys finds these.
ObjectPrototype ==
  [constructor |-> Fun("function Object() { [native code] }"),
   toString |-> Fun("function toString() { [native code] }"),
   valueOf |-> Fun("function valueOf() { [native code] }"),
   hasOwnProperty |-> Fun("function hasOwnProperty() { [native code] }")]

\* typesMap[k]: the own property, else the inherited one, else undefined
typesMapGet(k) ==
  IF k \in DOMAIN typesMap THEN Str(typesMap[k])
  ELSE IF k \in DOMAIN ObjectPrototype THEN ObjectPrototype[k]
  ELSE Undefined

stepNamesMap ==
  <<[v2Type |-> "triggers", v3Type |-> "trigger"],
    [v2Type |-> "searches", v3Type |-> "search"],
    [v2Type |-> "actions", v3Type |-> "write"]>>

----------------------------------------------------------------------------
(* padHelpText, renderProp, quote, renderField *)

\* Line 47: the message, with the minimum length written in decimal
helpMsg ==
  "(help text must be at least " \o ToString(MIN_HELP_TEXT_LENGTH) \o " characters)"

\* padHelpText with the comparison off by one: a text of exactly the minimum
\* length is padded too
padHelpTextOffByOne(text) ==
  IF ~isString(text) THEN helpMsg
  ELSE IF Len(text.v) <= MIN_HELP_TEXT_LENGTH THEN text.v \o " " \o helpMsg
  ELSE text.v

padHelpText(text) ==
  IF ~isString(text) THEN helpMsg
  ELSE IF Len(text.v) < MIN_HELP_TEXT_LENGTH THEN text.v \o " " \o helpMsg
  ELSE text.v

renderProp(key, value) == key \o ": " \o value

quote(s) == "'" \o s \o "'"

\* Line 62: definition.type && typesMap[definition.type.toLowerCase()] || 'string'.
\* A truthy type that is no string has no toLowerCase method: calling it
\* throws a TypeError.
fieldTypeThrows(definition) ==
  Truthy(definition.type) /\ ~isString(definition.type)

fieldType(definition) ==
  IF ~Truthy(definition.type) THEN Str("string")
  ELSE LET found == typesMapGet(toLowerCase(definition.type.v))
       IN IF Truthy(found) THEN found ELSE Str("string")

\* The props array of renderField, before it is indented (lines 64-74)
fieldProps(definition, key) ==
  LET props == <<renderProp("key", quote(key)),
                 renderProp("label", quote(toStr(definition.label))),
                 renderProp("helpText", quote(padHelpText(definition.help_text))),
                 renderProp("type", quote(toStr(fieldType(definition)))),
                 renderProp("required", toStr(Bool(Truthy(definition.required))))>>
  IN IF Truthy(definition.placeholder)
     THEN Append(props, renderProp("placeholder", quote(toStr(definition.placeholder))))
     ELSE props

indent(props) == [i \in 1..Len(props) |-> repeat(" ", 8) \o props[i]]

\* renderField: threw, or the props it listed and the fragment it returned
renderField(definition, key) ==
  IF fieldTypeThrows(definition)
  THEN [state |-> "threw", props |-> <<>>, text |-> ""]
  ELSE LET props == fieldProps(definition, key)
       IN [state |-> "returned",
           props |-> props,
           text |-> "      {\n" \o join(indent(props), ",\n") \o "\n      }"]

----------------------------------------------------------------------------
(* JavaScript objects used as mappings *)

\* An object is the sequence of its [name, value] entries in insertion order.
\* Enumerating it (Object.keys, _.each, _.map) gives first the names that are
\* array indices, in ascending numeric order, then the others in insertion order.
isArrayIndex(name) ==
  /\ Len(name) \in 1..9
  /\ \A i \in 1..Len(name) : isDigit(Char(name, i))
  /\ (Len(name) > 1 => Char(name, 1) # "0")

RECURSIVE toNumber(_)
toNumber(name) ==
  IF Len(name) = 0 THEN 0
  ELSE 10 * toNumber(SubSeq(name, 1, Len(name) - 1))
         + (IndexIn(Char(name, Len(name)), Digits) - 1)

RECURSIVE ascending(_)
ascending(entries) ==
  IF Len(entries) = 0 THEN <<>>
  ELSE LET least == CHOOSE i \in 1..Len(entries) :
                      \A j \in 1..Len(entries) :
                        toNumber(entries[i].name) <= toNumber(entries[j].name)
       IN <<entries[least]>>
            \o ascending(SelectSeq(entries, LAMBDA e : e.name # entries[least].name))

ownEntries(obj) ==
  ascending(SelectSeq(obj, LAMBDA e : isArrayIndex(e.name)))
    \o SelectSeq(obj, LAMBDA e : ~isArrayIndex(e.name))

names(entries) == [i \in 1..Len(entries) |-> entries[i].name]

----------------------------------------------------------------------------
(* camelCase, snakeCase (./misc) and _.kebabCase *)

isAlnum(c) == isUpper(c) \/ isLower(c) \/ isDigit(c)

\* The words of a string: maximal runs of letters and digits, cut as well
\* where an upper-case letter follows a lower-case one.
RECURSIVE words(_, _, _, _)
words(s, i, cur, acc) ==
  LET flush == IF cur = "" THEN acc ELSE Append(acc, cur)
  IN IF i > Len(s) THEN flush
     ELSE LET c == Char(s, i)
          IN IF ~isAlnum(c) THEN words(s, i + 1, "", flush)
             ELSE IF isUpper(c) /\ cur # "" /\ isLower(Char(cur, Len(cur)))
                  THEN words(s, i + 1, c, flush)
                  ELSE words(s, i + 1, cur \o c, acc)

lowerWords(s) ==
  LET w == words(s, 1, "", <<>>) IN [i \in 1..Len(w) |-> toLowerCase(w[i])]

snakeCase(str) == join(lowerWords(str), "_")

kebabCase(str) == join(lowerWords(str), "-")

camelCase(str) ==
  LET w == lowerWords(str)
  IN join([i \in 1..Len(w) |-> IF i = 1 THEN w[i] ELSE capitalize(w[i])], "")

----------------------------------------------------------------------------
(* renderSampleField, renderSample, renderStep *)

TEMPLATE_DIR == "scaffold/convert"

NoCollection == [t |-> "undefined", entries |-> <<>>]
Collection(entries) == [t |-> "object", entries |-> entries]

\* _.isEmpty of undefined or of a collection
isEmpty(c) == c.t = "undefined" \/ Len(c.entries) = 0

\* renderSampleField looking the type up lower-cased, as renderField does
renderSampleFieldLowerCased(def) ==
  LET type == typesMapGet(toLowerCase(toStr(def.type)))
  IN "      " \o toStr(def.key) \o ": {\n        type: " \o quote(toStr(type))
       \o ",\n        label: " \o quote(toStr(def.label)) \o "\n      }"

\* Line 84: typesMap[def.type], the token as it stands; a property name is
\* the text of the value
renderSampleField(def) ==
  LET type == typesMapGet(toStr(def.type))
  IN "      " \o toStr(def.key) \o ": {\n        type: " \o quote(toStr(type))
       \o ",\n        label: " \o quote(toStr(def.label)) \o "\n      }"

renderSample(definition) ==
  LET e == ownEntries(definition.sample_result_fields.entries)
      fields == [i \in 1..Len(e) |-> renderSampleField(e[i].value)]
  IN "    sample: {\n" \o join(fields, ",\n") \o "\n    }"

\* Line 103
stepSample(definition) ==
  IF ~isEmpty(definition.sample_result_fields)
  THEN renderSample(definition) \o ",\n"
  ELSE ""

\* Line 102: _.map over the fields array hands renderField the element and
\* its index
stepFields(definition) ==
  [i \in 1..Len(definition.fields) |->
     renderField(definition.fields[i], ToString(i - 1))]

stepThrows(definition) ==
  \E i \in 1..Len(definition.fields) : fieldTypeThrows(definition.fields[i])

NoContext == [KEY |-> "", CAMEL |-> "", NOUN |-> "", LOWER_NOUN |-> "",
              FIELDS |-> "", SAMPLE |-> ""]

\* renderStep up to its call of renderTemplate: threw, or the template file
\* it reads and the context it built
renderStep(type, definition, key) ==
  IF stepThrows(definition)
  THEN [state |-> "threw", templateFile |-> "", context |-> NoContext]
  ELSE LET fields == stepFields(definition)
       IN [state |-> "reading",
           templateFile |-> TEMPLATE_DIR \o "/" \o type \o ".template.js",
           context |->
             [KEY |-> snakeCase(key),
              CAMEL |-> camelCase(key),
              NOUN |-> capitalize(key),
              LOWER_NOUN |-> toLowerCase(key),
              FIELDS |-> join([i \in 1..Len(fields) |-> fields[i].text], ",\n"),
              SAMPLE |-> stepSample(definition)]]

----------------------------------------------------------------------------
(* renderIndex, renderPackageJson *)

dirMap == [trigger |-> "triggers", search |-> "searches", write |-> "writes"]

indexVarName(v3Type, name) == camelCase(name) \o capitalize(camelCase(v3Type))

requireLine(v3Type, name) ==
  "const " \o indexVarName(v3Type, name) \o " = require('./"
    \o dirMap[v3Type] \o "/" \o snakeCase(name) \o "');"

mappingLine(v3Type, name) ==
  "[" \o indexVarName(v3Type, name) \o ".key]: " \o indexVarName(v3Type, name) \o ","

\* The steps of one category as _.each visits them
visited(legacyApp, v2Type) == names(ownEntries(legacyApp[v2Type]))

categoryImports(legacyApp, n) ==
  LET v == visited(legacyApp, stepNamesMap[n].v2Type)
  IN [i \in 1..Len(v) |-> requireLine(stepNamesMap[n].v3Type, v[i])]

categoryLines(legacyApp, n) ==
  LET v == visited(legacyApp, stepNamesMap[n].v2Type)
  IN [i \in 1..Len(v) |-> mappingLine(stepNamesMap[n].v3Type, v[i])]

\* renderIndex up to its call of renderTemplate: importLines, each category's
\* lines, and the template context
renderIndex(legacyApp) ==
  LET importLines == categoryImports(legacyApp, 1) \o categoryImports(legacyApp, 2)
                       \o categoryImports(legacyApp, 3)
  IN [state |-> "reading",
      importLines |-> importLines,
      lines |-> [n \in 1..3 |-> categoryLines(legacyApp, n)],
      templateFile |-> TEMPLATE_DIR \o "/index.template.js",
      context |->
        [TRIGGERS |-> join(categoryLines(legacyApp, 1), ",\n"),
         SEARCHES |-> join(categoryLines(legacyApp, 2), ",\n"),
         WRITES |-> join(categoryLines(legacyApp, 3), ",\n"),
         REQUIRES |-> join(importLines, "\n")]]

renderPackageJson(legacyApp) ==
  [templateFile |-> TEMPLATE_DIR \o "/package.template.json",
   context |-> [NAME |-> kebabCase(legacyApp.general.title),
                DESCRIPTION |-> legacyApp.general.description]]

----------------------------------------------------------------------------
(* renderField and padHelpText called on their own *)

MaxTextLen == 12

TextChars == {"a", "b", "Z", "7", " ", "'"}

\* Strings of every length up to MaxTextLen, on both sides of the minimum
Texts == {repeat(c, n) : c \in TextChars, n \in 0..MaxTextLen}
           \cup {"hi", "this is long enough"}

HelpValues == {Undefined, Null, Num("42"), Num("0"), Bool(TRUE), Bool(FALSE)}
                \cup {Str(s) : s \in Texts}

TypeTokens ==
  {"unicode", "UNICODE", "Unicode", "textarea", "TextArea", "integer", "Integer",
   "float", "FLOAT", "boolean", "Boolean", "datetime", "DateTime", "file", "File",
   "password", "PASSWORD", "bogus", "text", "number", "constructor", "toString"}

TypeValues == {Undefined, Null, Str(""), Num("42"), Num("0"), Bool(TRUE), Bool(FALSE)}
                \cup {Str(s) : s \in TypeTokens}

FieldDefinitions ==
  [type : TypeValues,
   label : {Undefined, Str("Name")},
   help_text : {Undefined, Num("42"), Str("hi"), Str("this is long enough")},
   required : {Undefined, Null, Bool(TRUE), Bool(FALSE), Str("yes"), Num("0")},
   placeholder : {Undefined, Null, Str(""), Str("e.g. 123"), Num("0")}]

FieldKeys == {"foo", "bar"}

NoField == [type |-> Undefined, label |-> Undefined, help_text |-> Undefined,
            required |-> Undefined, placeholder |-> Undefined]
FieldIdle == [state |-> "idle", props |-> <<>>, text |-> ""]
HelpIdle == [state |-> "idle", text |-> ""]

\* A caller of renderField, with any field definition and key
CallRenderField ==
  /\ fres.state = "idle"
  /\ fres' = renderField(fdef, fkey)
  /\ UNCHANGED <<fdef, fkey, helpVars, stepVars, indexVars, convertVars>>

\* A caller of padHelpText, with any value
CallPadHelpText ==
  /\ hres.state = "idle"
  /\ hres' = [state |-> "returned", text |-> padHelpText(htext)]
  /\ UNCHANGED <<htext, fieldVars, stepVars, indexVars, convertVars>>

----------------------------------------------------------------------------
(* Legacy apps *)

General == [title |-> "My Legacy App", description |-> "A legacy app"]

\* The objects with n entries, named apart, over the given names and values
Objects(keys, values, n) ==
  {o \in [1..n -> [name : keys, value : values]] :
     \A i, j \in 1..n : o[i].name = o[j].name => i = j}

\* The legacy apps with at most max steps in all
LegacyApps(keys, values, max) ==
  UNION {UNION {UNION {
    {[triggers |-> t, searches |-> s, actions |-> a, general |-> General] :
       t \in Objects(keys, values, l1), s \in Objects(keys, values, l2),
       a \in Objects(keys, values, l3)} :
    l3 \in 0..(max - l1 - l2)} : l2 \in 0..(max - l1)} : l1 \in 0..max}

NoApp == [triggers |-> <<>>, searches |-> <<>>, actions |-> <<>>, general |-> General]

stepCount(legacyApp) ==
  Len(legacyApp.triggers) + Len(legacyApp.searches) + Len(legacyApp.actions)

----------------------------------------------------------------------------
(* renderStep and renderIndex called on their own *)

MaxFields == 2
MaxSampleFields == 2
MaxIndexSteps == 3

PlainField == [type |-> Str("Unicode"), label |-> Str("Name"), help_text |-> Str("hi"),
               required |-> Bool(TRUE), placeholder |-> Undefined]
NumericTypeField == [PlainField EXCEPT !.type = Num("42")]

SampleSpecs == [key : {Undefined, Str("id")},
                type : {Undefined, Str("unicode"), Str("UNICODE")},
                label : {Str("ID")}]

SampleNames == {"id", "name", "7"}

\* sample_result_fields: absent, an object keyed by field key, or an array
SampleValues ==
  {NoCollection}
    \cup UNION {{Collection(o) : o \in Objects(SampleNames, SampleSpecs, n)} :
                  n \in 0..MaxSampleFields}
    \cup UNION {{Collection([i \in 1..n |-> [name |-> ToString(i - 1), value |-> a[i]]]) :
                   a \in [1..n -> SampleSpecs]} : n \in 1..MaxSampleFields}

StepDefinitions ==
  [fields : UNION {[1..n -> {PlainField, NumericTypeField}] : n \in 0..MaxFields},
   sample_result_fields : SampleValues]

NoStep == [type |-> "trigger", key |-> "",
           definition |-> [fields |-> <<>>, sample_result_fields |-> NoCollection]]
StepIdle == [state |-> "idle", templateFile |-> "", context |-> NoContext]

IndexKeys == {"foo", "Bar baz", "7", "10"}

IndexIdle == [state |-> "idle", importLines |-> <<>>,
              lines |-> [n \in 1..3 |-> <<>>], templateFile |-> "",
              context |-> [TRIGGERS |-> "", SEARCHES |-> "", WRITES |-> "",
                           REQUIRES |-> ""]]

\* A caller of renderStep, with any step definition
CallRenderStep ==
  /\ sres.state = "idle"
  /\ sres' = renderStep(sdef.type, sdef.definition, sdef.key)
  /\ UNCHANGED <<sdef, fieldVars, helpVars, indexVars, convertVars>>

\* A caller of renderIndex, with any legacy app
CallRenderIndex ==
  /\ ires.state = "idle"
  /\ ires' = renderIndex(iapp)
  /\ UNCHANGED <<iapp, fieldVars, helpVars, stepVars, convertVars>>

----------------------------------------------------------------------------
(* Specifications of the functions called on their own *)

FieldAtRest == fdef = NoField /\ fkey = "" /\ fres = FieldIdle
HelpAtRest == htext = Undefined /\ hres = HelpIdle
StepAtRest == sdef = NoStep /\ sres = StepIdle
IndexAtRest == iapp = NoApp /\ ires = IndexIdle
ConvertAtRest ==
  /\ app = NoApp
  /\ pc = "idle"
  /\ tasks = <<>>
  /\ all = "none"
  /\ written = <<>>
  /\ printed = <<>>

InitField ==
  /\ fdef \in FieldDefinitions
  /\ fkey \in FieldKeys
  /\ fres = FieldIdle
  /\ HelpAtRest /\ StepAtRest /\ IndexAtRest /\ ConvertAtRest

SpecField == InitField /\ [][CallRenderField]_vars

InitHelp ==
  /\ htext \in HelpValues
  /\ hres = HelpIdle
  /\ FieldAtRest /\ StepAtRest /\ IndexAtRest /\ ConvertAtRest

SpecHelp == InitHelp /\ [][CallPadHelpText]_vars

InitStep ==
  /\ sdef \in [type : {"trigger", "search", "write"}, key : {"New Contact"},
               definition : StepDefinitions]
  /\ sres = StepIdle
  /\ FieldAtRest /\ HelpAtRest /\ IndexAtRest /\ ConvertAtRest

SpecStep == InitStep /\ [][CallRenderStep]_vars

InitIndex ==
  /\ iapp \in LegacyApps(IndexKeys, {"definition"}, MaxIndexSteps)
  /\ ires = IndexIdle
  /\ FieldAtRest /\ HelpAtRest /\ StepAtRest /\ ConvertAtRest

SpecIndex == InitIndex /\ [][CallRenderIndex]_vars

----------------------------------------------------------------------------
(* convertApp and the file tasks it issues *)

MaxSteps == 2

newAppDir == "new-app"

stepTypeMap == [trigger |-> "triggers", search |-> "searches", write |-> "writes"]

\* A task from the call of readFile on: where it stands (the I/O call it
\* waits for, or how it ended) and what it did so far
task(templateFile, fileName) ==
  [templateFile |-> templateFile,
   fileName |-> fileName,
   destFile |-> newAppDir \o "/" \o fileName,
   at |-> "readFile",
   log |-> <<>>]

NoTask == [task("", "") EXCEPT !.at = "threw"]

\* writeStep up to the call of readFile: the task, or NoTask when renderStep
\* threw
writeStep(type, definition, key) ==
  LET r == renderStep(type, definition, key)
  IN IF r.state = "threw" THEN NoTask
     ELSE task(r.templateFile, stepTypeMap[type] \o "/" \o snakeCase(key) \o ".js")

writeIndex(legacyApp) == task(renderIndex(legacyApp).templateFile, "index.js")

writePackageJson(legacyApp) ==
  task(renderPackageJson(legacyApp).templateFile, "package.json")

\* The steps in the order of convertApp's two loops
categorySteps(legacyApp, n) ==
  LET e == ownEntries(legacyApp[stepNamesMap[n].v2Type])
  IN [i \in 1..Len(e) |-> writeStep(stepNamesMap[n].v3Type, e[i].value, e[i].name)]

stepTasks(legacyApp) ==
  categorySteps(legacyApp, 1) \o categorySteps(legacyApp, 2)
    \o categorySteps(legacyApp, 3)

\* The tasks issued before the first step that throws, all of them if none does
issuedBeforeThrow(steps) ==
  IF \E i \in 1..Len(steps) : steps[i] = NoTask
  THEN SubSeq(steps, 1, (CHOOSE i \in 1..Len(steps) :
                           /\ steps[i] = NoTask
                           /\ \A j \in 1..(i - 1) : steps[j] # NoTask) - 1)
  ELSE steps

\* Promise.all waiting for every task although one already rejected
settleWhenAllEnded(promise, promises) ==
  IF promise # "pending" THEN promise
  ELSE IF \E i \in 1..Len(promises) : promises[i].at \notin {"resolved", "rejected"}
       THEN "pending"
  ELSE IF \E i \in 1..Len(promises) : promises[i].at = "rejected" THEN "rejected"
  ELSE "resolved"

\* Promise.all: rejected by the first task to reject, resolved once all are
settle(promise, promises) ==
  IF promise # "pending" THEN promise
  ELSE IF \E i \in 1..Len(promises) : promises[i].at = "rejected" THEN "rejected"
  ELSE IF \A i \in 1..Len(promises) : promises[i].at = "resolved" THEN "resolved"
  ELSE "pending"

\* convertApp: issues the tasks one after the other and hands them to
\* Promise.all; a step that throws ends it there, the tasks before it issued
ConvertApp ==
  /\ pc = "start"
  /\ LET steps == stepTasks(app)
     IN IF \E i \in 1..Len(steps) : steps[i] = NoTask
        THEN /\ tasks' = issuedBeforeThrow(steps)
             /\ pc' = "threw"
             /\ all' = "none"
        ELSE /\ tasks' = steps \o <<writeIndex(app), writePackageJson(app)>>
             /\ pc' = "returned"
             /\ all' = "pending"
  /\ UNCHANGED <<app, written, printed, fieldVars, helpVars, stepVars, indexVars>>

\* A task going on after a failed call as if it had succeeded
failedIgnored(t, call) ==
  [t EXCEPT !.at = IF call = "readFile" THEN "ensureDir"
                   ELSE IF call = "ensureDir" THEN "writeFile" ELSE "resolved",
            !.log = Append(@, call \o "!")]

\* A failed call rejects the task: no later step runs
failed(t, call) == [t EXCEPT !.at = "rejected", !.log = Append(@, call \o "!")]

\* renderTemplate's then-callbacks, then createFile up to ensureDir
templateRead(t) == [t EXCEPT !.at = "ensureDir", !.log = Append(@, "readFile")]

\* createFile's first then-callback: writeFile is called
dirEnsured(t) == [t EXCEPT !.at = "writeFile", !.log = Append(@, "ensureDir")]

\* createFile's second then-callback: printStarting, printDone
fileWritten(t) ==
  [t EXCEPT !.at = "resolved",
            !.log = @ \o <<"writeFile", "printStarting", "printDone">>]

count(f, x) == IF x \in DOMAIN f THEN f[x] ELSE 0
increment(f, x) == [y \in DOMAIN f \cup {x} |-> count(f, y) + IF y = x THEN 1 ELSE 0]

Step(i, t) ==
  /\ tasks' = [tasks EXCEPT ![i] = t]
  /\ all' = settle(all, tasks')
  /\ UNCHANGED <<app, pc, fieldVars, helpVars, stepVars, indexVars>>

ReadFileDone(i) ==
  /\ tasks[i].at = "readFile"
  /\ Step(i, templateRead(tasks[i]))
  /\ UNCHANGED <<written, printed>>

ReadFileFails(i) ==
  /\ tasks[i].at = "readFile"
  /\ Step(i, failed(tasks[i], "readFile"))
  /\ UNCHANGED <<written, printed>>

EnsureDirDone(i) ==
  /\ tasks[i].at = "ensureDir"
  /\ Step(i, dirEnsured(tasks[i]))
  /\ UNCHANGED <<written, printed>>

EnsureDirFails(i) ==
  /\ tasks[i].at = "ensureDir"
  /\ Step(i, failed(tasks[i], "ensureDir"))
  /\ UNCHANGED <<written, printed>>

WriteFileDone(i) ==
  /\ tasks[i].at = "writeFile"
  /\ Step(i, fileWritten(tasks[i]))
  /\ written' = increment(written, tasks[i].destFile)
  /\ printed' = increment(printed, "Writing " \o tasks[i].fileName)

WriteFileFails(i) ==
  /\ tasks[i].at = "writeFile"
  /\ Step(i, failed(tasks[i], "writeFile"))
  /\ UNCHANGED <<written, printed>>

ConvertKeys == {"foo bar", "foo_bar"}

ConvertDefinitions ==
  {[fields |-> <<PlainField>>, sample_result_fields |-> NoCollection],
   [fields |-> <<PlainField, NumericTypeField>>, sample_result_fields |-> NoCollection]}

Init ==
  /\ app \in LegacyApps(ConvertKeys, ConvertDefinitions, MaxSteps)
  /\ pc = "start"
  /\ tasks = <<>>
  /\ all = "none"
  /\ written = <<>>
  /\ printed = <<>>
  /\ FieldAtRest /\ HelpAtRest /\ StepAtRest /\ IndexAtRest

Next ==
  \/ ConvertApp
  \/ \E i \in 1..Len(tasks) : ReadFileDone(i)
  \/ \E i \in 1..Len(tasks) : ReadFileFails(i)
  \/ \E i \in 1..Len(tasks) : EnsureDirDone(i)
  \/ \E i \in 1..Len(tasks) : EnsureDirFails(i)
  \/ \E i \in 1..Len(tasks) : WriteFileDone(i)
  \/ \E i \in 1..Len(tasks) : WriteFileFails(i)

Spec == Init /\ [][Next]_vars

----------------------------------------------------------------------------
(* The field renderer: claims C4, C5, C7 *)

\* C4: whatever the values of its type, label, help_text, required and
\* placeholder, no field definition makes renderField throw: every call
\* returns a fragment.
C4_RenderFieldNeverThrows == fres.state # "threw"

\* What holds instead: renderField throws exactly when the type is truthy
\* and not a string.
C4_ThrowsOnlyOnNonStringType ==
  fres.state # "idle"
    => (fres.state = "threw" <=> (Truthy(fdef.type) /\ ~isString(fdef.type)))

\* The type the mapping is said to give a token
ClaimedType(type) ==
  IF isString(type) /\ toLowerCase(type.v) \in DOMAIN typesMap
  THEN typesMap[toLowerCase(type.v)]
  ELSE "string"

\* C5: the field-type mapping is case-insensitive and total: a token that,
\* lower-cased, is one of the eight table keys yields that key's table value,
\* and every other token, null and an absent type included, yields "string".
C5_TypeMappingTotal ==
  (fres.state # "idle" /\ fdef.type.t \in {"string", "undefined", "null"})
    => /\ fres.state = "returned"
       /\ fres.props[4] = "type: '" \o ClaimedType(fdef.type) \o "'"

\* What holds instead: the mapping is as claimed for every string token that
\* names no member of Object.prototype.
C5_TypeMappingOffPrototype ==
  (fres.state # "idle" /\ fdef.type.t \in {"string", "undefined", "null"}
     /\ toLowerCase(fdef.type.v) \notin DOMAIN ObjectPrototype)
    => /\ fres.state = "returned"
       /\ fres.props[4] = "type: '" \o ClaimedType(fdef.type) \o "'"

startsWith(s, prefix) ==
  Len(s) >= Len(prefix) /\ SubSeq(s, 1, Len(prefix)) = prefix

PropsListed(props, propNames) ==
  /\ Len(props) = Len(propNames)
  /\ \A i \in 1..Len(propNames) : startsWith(props[i], propNames[i] \o ": ")

ClaimedProps(definition) ==
  IF Truthy(definition.placeholder)
  THEN <<"key", "label", "helpText", "type", "required", "placeholder">>
  ELSE <<"key", "label", "helpText", "type", "required">>

\* C7: renderField always lists key, label, helpText, type, required in that
\* order, required being the boolean coercion of definition.required, and
\* appends placeholder as the last property exactly when
\* definition.placeholder is truthy.
C7_PropsListedInOrder ==
  fres.state # "idle"
    => /\ fres.state = "returned"
       /\ PropsListed(fres.props, ClaimedProps(fdef))
       /\ fres.props[5] = (IF Truthy(fdef.required) THEN "required: true"
                           ELSE "required: false")

\* What holds instead: every fragment renderField returns lists them so.
C7_PropsListedWhenReturned ==
  fres.state = "returned"
    => /\ PropsListed(fres.props, ClaimedProps(fdef))
       /\ fres.props[5] = (IF Truthy(fdef.required) THEN "required: true"
                           ELSE "required: false")

----------------------------------------------------------------------------
(* The text sanitizer: claim C6 *)

\* C6: padHelpText returns the fixed message for every input that is not a
\* string, the text followed by a space and the message for every string
\* shorter than 10 characters (the empty string included), and the text
\* unchanged for every string of 10 or more characters.
C6_PadHelpText ==
  hres.state = "returned"
    => /\ ~isString(htext)
            => hres.text = "(help text must be at least 10 characters)"
       /\ (isString(htext) /\ Len(htext.v) < 10)
            => hres.text = htext.v \o " (help text must be at least 10 characters)"
       /\ (isString(htext) /\ Len(htext.v) >= 10)
            => hres.text = htext.v

\* A string one short of the minimum was padded
C6_Witness ==
  /\ hres.state = "returned"
  /\ isString(htext)
  /\ Len(htext.v) = 9
  /\ hres.text = htext.v \o " (help text must be at least 10 characters)"

----------------------------------------------------------------------------
(* The sample fragment of renderStep: claim C9 *)

SampleEntry(nameText, spec) ==
  "      " \o nameText \o ": {\n        type: '" \o toStr(typesMapGet(toStr(spec.type)))
    \o "',\n        label: '" \o toStr(spec.label) \o "'\n      }"

----------------------------------------------------------------------------
(* The index renderer: claim C8 *)

InsertionOrder(legacyApp, n) == names(legacyApp[stepNamesMap[n].v2Type])

ClaimedImports(legacyApp, n) ==
  LET v == InsertionOrder(legacyApp, n)
  IN [i \in 1..Len(v) |-> requireLine(stepNamesMap[n].v3Type, v[i])]

ClaimedLines(legacyApp, n) ==
  LET v == InsertionOrder(legacyApp, n)
  IN [i \in 1..Len(v) |-> mappingLine(stepNamesMap[n].v3Type, v[i])]

\* C8: renderIndex accumulates one require line and one mapping line per
\* step, the require lines in the order triggers, searches, actions, and
\* within each category both kinds of line in the insertion order of the
\* category's step mapping.
C8_IndexFollowsInsertionOrder ==
  ires.state = "reading"
    => /\ ires.importLines = ClaimedImports(iapp, 1) \o ClaimedImports(iapp, 2)
                               \o ClaimedImports(iapp, 3)
       /\ \A n \in 1..3 : ires.lines[n] = ClaimedLines(iapp, n)

\* What holds instead: one line of each kind per step, in insertion order
\* wherever no step key of the category is an array index.
C8_IndexFollowsInsertionOrderOffIndices ==
  ires.state = "reading"
    => /\ Len(ires.importLines) = stepCount(iapp)
       /\ \A n \in 1..3 :
            /\ Len(ires.lines[n]) = Len(iapp[stepNamesMap[n].v2Type])
            /\ (\A i \in 1..Len(InsertionOrder(iapp, n)) :
                  ~isArrayIndex(InsertionOrder(iapp, n)[i]))
                 => ires.lines[n] = ClaimedLines(iapp, n)

----------------------------------------------------------------------------
(* The orchestrator: claims C1, C2, C3, C10 *)

ClaimedFiles(legacyApp) ==
  {newAppDir \o "/triggers/" \o snakeCase(legacyApp.triggers[i].name) \o ".js" :
     i \in 1..Len(legacyApp.triggers)}
    \cup {newAppDir \o "/searches/" \o snakeCase(legacyApp.searches[i].name) \o ".js" :
            i \in 1..Len(legacyApp.searches)}
    \cup {newAppDir \o "/writes/" \o snakeCase(legacyApp.actions[i].name) \o ".js" :
            i \in 1..Len(legacyApp.actions)}
    \cup {newAppDir \o "/index.js", newAppDir \o "/package.json"}

FilesWritten == {f \in DOMAIN written : written[f] > 0}

\* C1: for every legacy app convertApp issues exactly (number of steps) + 2
\* tasks, and when all of them succeeded the files written are exactly one
\* per step, under triggers/, searches/ or writes/ and named by the
\* normalized step key, plus index.js and package.json.
C1_TasksAndFiles ==
  pc # "start"
    => /\ Len(tasks) = stepCount(app) + 2
       /\ (\A i \in 1..Len(tasks) : tasks[i].at = "resolved")
            => FilesWritten = ClaimedFiles(app)

\* What holds instead: it is so whenever convertApp returns its promise.
C1_TasksAndFilesWhenReturned ==
  pc = "returned"
    => /\ Len(tasks) = stepCount(app) + 2
       /\ (\A i \in 1..Len(tasks) : tasks[i].at = "resolved")
            => FilesWritten = ClaimedFiles(app)

InFlight(t) == t.at \in {"readFile", "ensureDir", "writeFile"}

\* C2: the promise convertApp returns is resolved only once every task has
\* resolved, every file then being written; it is rejected as soon as one
\* task has rejected, whatever the others are doing, and the tasks still in
\* flight then go on.
C2_AllResolvedOrFirstRejected ==
  pc = "returned"
    => /\ all = "resolved" <=> \A i \in 1..Len(tasks) : tasks[i].at = "resolved"
       /\ all = "resolved"
            => \A i \in 1..Len(tasks) : count(written, tasks[i].destFile) > 0
       /\ all = "rejected" <=> \E i \in 1..Len(tasks) : tasks[i].at = "rejected"
       /\ all = "rejected"
            => \A j \in 1..Len(tasks) :
                 InFlight(tasks[j])
                   => ENABLED (ReadFileDone(j) \/ EnsureDirDone(j) \/ WriteFileDone(j))

\* The promise is rejected by one task while another is in flight and a
\* third has written its file
C2_Witness ==
  /\ pc = "returned"
  /\ all = "rejected"
  /\ Cardinality({i \in 1..Len(tasks) : tasks[i].at = "rejected"}) = 1
  /\ \E j \in 1..Len(tasks) : InFlight(tasks[j])
  /\ \E j \in 1..Len(tasks) : tasks[j].at = "resolved"

\* C3: the step keys being unique within each category, no two tasks of a
\* convertApp call write the same destination path: every path is written
\* at most once.
C3_PathsWrittenOnce ==
  (\A n \in 1..3 :
     \A i, j \in 1..Len(app[stepNamesMap[n].v2Type]) :
       app[stepNamesMap[n].v2Type][i].name = app[stepNamesMap[n].v2Type][j].name
         => i = j)
    => \A f \in DOMAIN written : written[f] <= 1

\* What holds instead: it is so when the normalized keys are unique within
\* each category.
C3_PathsWrittenOnceWhenNormalizedApart ==
  (\A n \in 1..3 :
     \A i, j \in 1..Len(app[stepNamesMap[n].v2Type]) :
       snakeCase(app[stepNamesMap[n].v2Type][i].name)
           = snakeCase(app[stepNamesMap[n].v2Type][j].name)
         => i = j)
    => \A f \in DOMAIN written : written[f] <= 1

TaskOrder == <<"readFile", "ensureDir", "writeFile", "printStarting", "printDone">>
Failures == {"readFile!", "ensureDir!", "writeFile!"}

occurrences(log, e) == Cardinality({k \in 1..Len(log) : log[k] = e})

\* C10: within each task the steps happen in the order read template,
\* ensure directory, write file, notify (starting, then done); the notifier
\* is called once per file, and only when the write succeeded; a failure of
\* a step is the last thing the task does, so that a task whose template
\* could not be read neither writes nor notifies.
C10_TaskStepsInOrder ==
  /\ \A i \in 1..Len(tasks) :
       LET log == tasks[i].log
           done == SelectSeq(log, LAMBDA e : e \notin Failures)
       IN /\ done = SubSeq(TaskOrder, 1, Len(done))
          /\ \A k \in 1..(Len(log) - 1) : log[k] \notin Failures
          /\ occurrences(log, "printStarting") = occurrences(log, "writeFile")
          /\ occurrences(log, "printDone") = occurrences(log, "writeFile")
          /\ occurrences(log, "writeFile") <= 1
          /\ tasks[i].at = "rejected" <=> (Len(log) > 0 /\ log[Len(log)] \in Failures)
          /\ tasks[i].at = "resolved" <=> occurrences(log, "writeFile") = 1
  /\ \A i \in 1..Len(tasks) :
       /\ count(written, tasks[i].destFile)
            = Cardinality({j \in 1..Len(tasks) :
                             /\ tasks[j].destFile = tasks[i].destFile
                             /\ occurrences(tasks[j].log, "writeFile") = 1})
       /\ count(printed, "Writing " \o tasks[i].fileName)
            = Cardinality({j \in 1..Len(tasks) :
                             /\ tasks[j].fileName = tasks[i].fileName
                             /\ occurrences(tasks[j].log, "printStarting") = 1})

\* A task whose template could not be read has done nothing else, its file
\* unwritten, while another task wrote its file and notified
C10_Witness ==
  \E i, j \in 1..Len(tasks) :
    /\ tasks[i].log = <<"readFile!">>
    /\ count(written, tasks[i].destFile) = 0
    /\ count(printed, "Writing " \o tasks[i].fileName) = 0
    /\ tasks[j].log = TaskOrder
    /\ count(printed, "Writing " \o tasks[j].fileName) = 1

\* Spot checks of the string functions
StringChecks ==
  /\ snakeCase("foo bar") = "foo_bar"
  /\ snakeCase("foo_bar") = "foo_bar"
  /\ snakeCase("fooBar") = "foo_bar"
  /\ snakeCase("New Contact") = "new_contact"
  /\ camelCase("New Contact") = "newContact"
  /\ kebabCase("My Legacy App") = "my-legacy-app"
  /\ capitalize("fooBar") = "Foobar"
  /\ toUpperCase("writes") = "WRITES"
  /\ helpMsg = "(help text must be at least 10 characters)"
  /\ names(ownEntries(<<[name |-> "foo", value |-> 1], [name |-> "10", value |-> 1],
                        [name |-> "7", value |-> 1], [name |-> "07", value |-> 1]>>))
       = <<"7", "10", "foo", "07">>

====
